---- MODULE Spec2Model ----
(***************************************************************************)
(* Model of sqlalchemy/sql/coercions.py: the role-based coercion engine.   *)
(*                                                                         *)
(* Python values are records carrying their class in the field "cls".      *)
(* Strings are sequences of one-character strings, so that comparison with *)
(* "*", str() of a number and the length test of ellipses_string are       *)
(* computed and not assumed.  Keyword arguments are functions from a set    *)
(* of key names to values.                                                 *)
(***************************************************************************)
EXTENDS Integers, Sequences, FiniteSets, TLC

VARIABLES
    pc,          \* "idle" | "unwrap" (inside the hook loop) | "done"
    role,        \* role passed to expect()
    element,     \* original element passed to expect()
    kw,          \* keyword options passed to expect()
    cur,         \* loop variable `element` of _resolve_for_clause_element
    hooks,       \* number of __clause_element__() invocations of this call
    outcome,     \* how the call ended: a returned value or a raised exception
    warnings,    \* number of util.warn_deprecated() emissions of this call
    trace,       \* methods of the rule set invoked by this call, in order
    lit_arg,     \* the value handed to _literal_coercion, if it was invoked
    first,       \* outcome of the previous call when expect is re-applied
    again,       \* TRUE once expect has been re-applied to its own result
    impl_lookup  \* the registry _impl_lookup

vars == <<pc, role, element, kw, cur, hooks, outcome, warnings, trace,
          lit_arg, first, again, impl_lookup>>

----------------------------------------------------------------------------
\* Bounds of the model.

\* The hook loop is followed for at most this many invocations.
MaxHooks == 3

----------------------------------------------------------------------------
\* Python values.

PyStr(s) == [cls |-> "str", s |-> s]
PyInt(n) == [cls |-> "int", n |-> n]
PyNone  == [cls |-> "NoneType"]
PyTrue  == [cls |-> "bool", b |-> TRUE]
PyFalse == [cls |-> "bool", b |-> FALSE]
List(items) == [cls |-> "list", items |-> items]
\* an object exposing __clause_element__ (a wrapper)
Wrapper(id) == [cls |-> "Wrapper", id |-> id]
\* an object the inspection registry knows (its descriptor is Inspect(v))
Inspectable(id) == [cls |-> "Inspectable", id |-> id]
\* any other object
PlainObject == [cls |-> "object"]
\* "nothing": the value of a variable no call has set yet
NoValue == [cls |-> "<unset>"]

STAR    == <<"*">>
FOO     == <<"f", "o", "o">>
RAW_SQL == <<"a", " ", "b">>
LONG    == [i \in 1..26 |-> "x"]
ARG     == <<"a", "r", "g">>

IsString(v) == v.cls \in {"str", "_truncated_label"}

\* util.ellipses_string(value, len_=25)
ellipses_string(s) ==
    IF Len(s) > 25 THEN SubSeq(s, 1, 25) \o <<".", ".", ".">> ELSE s

\* str() of a non-negative integer: its decimal digits
Digit(d) == CASE d = 0 -> "0" [] d = 1 -> "1" [] d = 2 -> "2" [] d = 3 -> "3"
              [] d = 4 -> "4" [] d = 5 -> "5" [] d = 6 -> "6" [] d = 7 -> "7"
              [] d = 8 -> "8" [] d = 9 -> "9"
RECURSIVE str(_)
str(n) == IF n < 10 THEN <<Digit(n)>> ELSE str(n \div 10) \o <<Digit(n % 10)>>

----------------------------------------------------------------------------
\* Expression-tree nodes (elements.py, selectable.py, schema.py).

Table        == [cls |-> "Table"]
Select(f)    == [cls |-> "Select", froms |-> f]
Alias(e, f)  == [cls |-> "Alias", element |-> e, flat |-> f]
Subquery(e)  == [cls |-> "Subquery", element |-> e]
ScalarSelect(e) == [cls |-> "ScalarSelect", element |-> e]
TextClause(t)   == [cls |-> "TextClause", text |-> t]
TextualSelect(e) == [cls |-> "TextualSelect", element |-> e]
ColumnClause(t, lit) == [cls |-> "ColumnClause", text |-> t, is_literal |-> lit]
Label(n, e)  == [cls |-> "Label", name |-> n, element |-> e]
BindParameter(v, t, exp) ==
    [cls |-> "BindParameter", value |-> v, type |-> t, expanding |-> exp]
_OffsetLimitParam(v, t) ==
    [cls |-> "_OffsetLimitParam", value |-> v, type |-> t, expanding |-> FALSE]
ClauseList(cs) == [cls |-> "ClauseList", clauses |-> cs]
Tuple(cs)    == [cls |-> "Tuple", clauses |-> cs]
Null         == [cls |-> "Null"]
True_        == [cls |-> "True_"]
False_       == [cls |-> "False_"]
Grouping(e, op) == [cls |-> "Grouping", element |-> e, against |-> op]
_label_reference(e) == [cls |-> "_label_reference", element |-> e]
_textual_label_reference(t) == [cls |-> "_textual_label_reference", text |-> t]
_truncated_label(s) == [cls |-> "_truncated_label", s |-> s]
\* a type object, and an operator function of the operators module
TypeEngine(t) == [cls |-> "TypeEngine", type |-> t]
Operator(op) == [cls |-> "operator", op |-> op]

ColumnElementClasses ==
    {"ColumnClause", "Label", "BindParameter", "_OffsetLimitParam", "Null",
     "True_", "False_", "Grouping", "ScalarSelect", "_label_reference",
     "_textual_label_reference", "Tuple"}
FromClauseClasses == {"Table", "Alias", "Subquery"}
NodeClasses ==
    ColumnElementClasses \cup FromClauseClasses
        \cup {"Select", "TextClause", "TextualSelect", "ClauseList"}

\* isinstance(v, (elements.ClauseElement, schema.SchemaItem))
IsNode(v) == v.cls \in NodeClasses
\* a tree node whose class also has a __clause_element__ method
HookedTable == [cls |-> "Table", id |-> "t1"]
\* hasattr(v, "__clause_element__")
HasHook(v) == v.cls = "Wrapper" \/ v = HookedTable
\* isinstance(v, operators.ColumnOperators)
IsColumnOperators(v) == v.cls \in ColumnElementClasses

\* v.__clause_element__() of the wrappers of the model
ClauseElementHook(v) ==
    CASE v.id = "w1" -> Table
      [] v.id = "w2" -> Wrapper("w1")
      [] v.id = "w3" -> PyStr(FOO)
      [] v.id = "w4" -> Wrapper("w5")
      [] v.id = "w5" -> Wrapper("w4")
      [] v.id = "w6" -> Select(Table)
      [] v.id = "w7" -> Label(ARG, ColumnClause(FOO, FALSE))
      [] v.id = "w8" -> HookedTable
      [] v.id = "w9" -> Wrapper("w2")
      [] v.id = "t1" -> Select(Table)

\* inspection.inspect(v, raiseerr=False): None, or a descriptor
NoDescriptor == [hook |-> FALSE, exists |-> FALSE, target |-> NoValue]
Inspect(v) ==
    IF v.cls = "Inspectable"
    THEN CASE v.id = "m1" -> [hook |-> TRUE, exists |-> TRUE, target |-> Table]
           [] v.id = "m2" -> [hook |-> FALSE, exists |-> TRUE, target |-> NoValue]
    ELSE NoDescriptor

\* node attributes and methods
_is_select_statement(v) == v.cls \in {"Select", "TextualSelect"}
_is_from_clause(v) == v.cls \in FromClauseClasses
_is_text_clause(v) == v.cls = "TextClause"
_order_by_label_element(v) == IF v.cls = "Label" THEN v ELSE PyNone
\* isinstance(v, selectable.Alias)
IsAlias(v) == v.cls \in {"Alias", "Subquery"}
\* isinstance(v, elements.BindParameter)
IsBindParameter(v) == v.cls \in {"BindParameter", "_OffsetLimitParam"}
\* isinstance(v, elements.ClauseList)
IsClauseList(v) == v.cls \in {"ClauseList", "Tuple"}
\* Alias.original: the element under every alias layer
RECURSIVE original(_)
original(v) == IF IsAlias(v.element) THEN original(v.element) ELSE v.element
\* ColumnElement.key
key(v) ==
    CASE v.cls = "ColumnClause" -> PyStr(v.text)
      [] v.cls = "Label" -> PyStr(v.name)
      [] OTHER -> PyNone
\* v.type of an expression
TypeOf(v) == IF "type" \in DOMAIN v THEN v.type ELSE "NullType"
\* v._annotate(values)
_annotate(v, values) ==
    [k \in DOMAIN v \cup {"annotations"} |->
        IF k = "annotations" THEN values ELSE v[k]]
\* element._with_expanding_in_types(types)
_with_expanding_in_types(v, types) ==
    [k \in DOMAIN v \cup {"expand_types"} |->
        IF k = "expand_types" THEN types ELSE v[k]]
NullType == "NullType"
_isnull(t) == t = NullType

\* type_api._resolve_value_to_type(value); "ArgumentError" when the value is
\* an inspectable object, which is not legal as a SQL literal value
_resolve_value_to_type(v) ==
    CASE v.cls = "int" -> "Integer"
      [] v.cls = "bool" -> "Boolean"
      [] IsString(v) -> "String"
      [] v.cls = "Inspectable" -> "ArgumentError"
      [] OTHER -> NullType

----------------------------------------------------------------------------
\* Roles (roles.py).  A role is named by its stem: "OrderBy" stands for
\* roles.OrderByRole and, in the class table below, for OrderByImpl.

\* the names of the roles module that end in "Role"
DeclaredRoles ==
    {"SQL", "ColumnArgument", "ColumnArgumentOrKey", "ColumnList",
     "TruncatedLabel", "ColumnsClause", "LimitOffset", "ByOf", "OrderBy",
     "Structural", "StatementOption", "WhereHaving", "ExpressionElement",
     "ConstExpr", "LabeledColumnExpr", "BinaryElement", "InElement",
     "FromClause", "StrictFromClause", "AnonymizedFromClause",
     "CoerceTextStatement", "Statement", "ReturnsRows", "SelectStatement",
     "HasCTE", "CompoundElement", "DML", "DMLColumn", "DMLSelect", "DDL",
     "DDLExpression", "DDLConstraintColumn"}

\* the direct base roles of a role
RoleParents(r) ==
    CASE r = "ColumnArgumentOrKey" -> {"ColumnArgument"}
      [] r \in {"ColumnsClause", "ByOf"} -> {"ColumnList"}
      [] r = "OrderBy" -> {"ByOf"}
      [] r \in {"StatementOption", "WhereHaving", "DDLExpression"} -> {"Structural"}
      [] r \in {"ConstExpr", "LabeledColumnExpr", "BinaryElement"} -> {"ExpressionElement"}
      [] r = "FromClause" -> {"ColumnsClause"}
      [] r = "StrictFromClause" -> {"FromClause"}
      [] r = "AnonymizedFromClause" -> {"StrictFromClause"}
      [] r = "Statement" -> {"CoerceTextStatement"}
      [] r \in {"ReturnsRows", "DML", "DDL"} -> {"Statement"}
      [] r \in {"SelectStatement", "HasCTE"} -> {"ReturnsRows"}
      [] r = "SQL" -> {}
      [] OTHER -> {"SQL"}

RECURSIVE RoleClosure(_)
RoleClosure(rs) ==
    LET up == rs \cup UNION {RoleParents(r) : r \in rs}
    IN  IF up = rs THEN rs ELSE RoleClosure(up)

\* issubclass(role_class, roles.UsesInspection)
UsesInspection(r) == "ColumnsClause" \in RoleClosure({r})

ColumnElementRoles ==
    {"ColumnArgumentOrKey", "StatementOption", "WhereHaving", "BinaryElement",
     "OrderBy", "ColumnsClause", "LimitOffset", "DMLColumn",
     "DDLConstraintColumn", "DDLExpression"}

\* the roles a class lists among its bases
DirectRoles(c) ==
    CASE c \in {"Null", "True_", "False_"} -> ColumnElementRoles \cup {"ConstExpr"}
      [] c \in {"Label", "ColumnClause"} -> ColumnElementRoles \cup {"LabeledColumnExpr"}
      [] c \in {"BindParameter", "_OffsetLimitParam", "ScalarSelect"} ->
            ColumnElementRoles \cup {"InElement"}
      [] c = "Tuple" -> ColumnElementRoles \cup {"InElement"}
      [] c \in ColumnElementClasses -> ColumnElementRoles
      [] c = "ClauseList" -> {"InElement", "OrderBy", "ColumnsClause"}
      [] c = "TextClause" ->
            {"DDLConstraintColumn", "DDLExpression", "StatementOption",
             "WhereHaving", "OrderBy", "FromClause", "SelectStatement",
             "CoerceTextStatement"}
      [] c \in FromClauseClasses -> {"AnonymizedFromClause"}
      [] c \in {"Select", "TextualSelect"} ->
            {"SelectStatement", "DMLSelect", "CompoundElement", "InElement",
             "HasCTE"}
      [] OTHER -> {}

\* issubclass(c, role_class)
IsSubclassOfRole(c, r) == r \in RoleClosure(DirectRoles(c))

----------------------------------------------------------------------------
\* The rule-set classes of coercions.py.

ImplClasses ==
    {"ExpressionElement", "BinaryElement", "InElement", "WhereHaving",
     "StatementOption", "ColumnArgument", "ColumnArgumentOrKey", "ByOf",
     "OrderBy", "DMLColumn", "ConstExpr", "TruncatedLabel", "DDLExpression",
     "DDLConstraintColumn", "LimitOffset", "LabeledColumnExpr",
     "ColumnsClause", "ReturnsRows", "Statement", "CoerceTextStatement",
     "SelectStatement", "HasCTE", "FromClause", "StrictFromClause",
     "AnonymizedFromClause", "DMLSelect", "CompoundElement"}

\* the base classes of a class, in order, the role classes left out
Bases(c) ==
    CASE c = "ExpressionElement" -> <<"_ColumnCoercions", "RoleImpl">>
      [] c = "BinaryElement" -> <<"ExpressionElement", "RoleImpl">>
      [] c \in {"WhereHaving", "ByOf"} ->
            <<"_CoerceLiterals", "_ColumnCoercions", "RoleImpl">>
      [] c \in {"StatementOption", "DDLExpression", "ColumnsClause",
                "CoerceTextStatement"} -> <<"_CoerceLiterals", "RoleImpl">>
      [] c \in {"ColumnArgument", "Statement", "SelectStatement", "FromClause",
                "DMLSelect", "CompoundElement"} -> <<"_NoTextCoercion", "RoleImpl">>
      [] c \in {"ColumnArgumentOrKey", "DMLColumn", "DDLConstraintColumn"} ->
            <<"_ReturnsStringKey", "RoleImpl">>
      [] c = "OrderBy" -> <<"ByOf", "RoleImpl">>
      [] c = "TruncatedLabel" -> <<"_StringOnly", "RoleImpl">>
      [] c \in {"InElement", "ConstExpr", "LimitOffset", "ReturnsRows"} -> <<"RoleImpl">>
      [] c = "LabeledColumnExpr" -> <<"ExpressionElement">>
      [] c = "HasCTE" -> <<"ReturnsRows">>
      [] c = "StrictFromClause" -> <<"FromClause">>
      [] c = "AnonymizedFromClause" -> <<"StrictFromClause">>
      [] OTHER -> <<>>

\* the attributes a class body defines
Defines(c) ==
    CASE c = "RoleImpl" ->
            {"_literal_coercion", "_post_coercion", "_resolve_for_clause_element",
             "_implicit_coercions", "_raise_for_expected"}
      [] c = "_StringOnly" -> {"_resolve_for_clause_element"}
      [] c = "_ReturnsStringKey" -> {"_implicit_coercions", "_literal_coercion"}
      [] c = "_ColumnCoercions" -> {"_implicit_coercions"}
      [] c = "_NoTextCoercion" -> {"_literal_coercion"}
      [] c = "_CoerceLiterals" ->
            {"_coerce_consts", "_coerce_star", "_coerce_numerics",
             "_text_coercion", "_literal_coercion"}
      [] c \in {"ExpressionElement", "ConstExpr"} -> {"_literal_coercion"}
      [] c = "BinaryElement" -> {"_literal_coercion", "_post_coercion"}
      [] c = "InElement" ->
            {"_implicit_coercions", "_literal_coercion", "_post_coercion"}
      [] c \in {"WhereHaving", "StatementOption", "ByOf", "DDLExpression"} ->
            {"_coerce_consts", "_text_coercion"}
      [] c \in {"OrderBy", "DMLColumn", "AnonymizedFromClause"} -> {"_post_coercion"}
      [] c \in {"TruncatedLabel", "LimitOffset"} ->
            {"_implicit_coercions", "_literal_coercion"}
      [] c \in {"LabeledColumnExpr", "SelectStatement", "FromClause",
                "StrictFromClause", "DMLSelect", "CompoundElement"} ->
            {"_implicit_coercions"}
      [] c = "ColumnsClause" ->
            {"_coerce_consts", "_coerce_numerics", "_coerce_star", "_text_coercion"}
      [] c = "CoerceTextStatement" -> {"_text_coercion"}
      [] OTHER -> {}

\* Attribute lookup: the first class, in method resolution order, that
\* defines attribute a.  For these hierarchies the order is the depth-first,
\* left-to-right walk of the bases.
RECURSIVE Owner(_, _), OwnerIn(_, _)
Owner(c, a) == IF a \in Defines(c) THEN c ELSE OwnerIn(Bases(c), a)
OwnerIn(bs, a) ==
    IF bs = <<>> THEN "<none>"
    ELSE LET o == Owner(Head(bs), a)
         IN  IF o # "<none>" THEN o ELSE OwnerIn(Tail(bs), a)

\* the class attributes _coerce_consts, _coerce_star, _coerce_numerics
CoerceFlag(c, a) == Owner(c, a) # "_CoerceLiterals"

\* A faulty variant: the rule set is bound to the role its class statement
\* lists as a base, which for CoerceTextStatementImpl is roles.StatementRole
RoleImpl_BaseRole(c, role_class) ==
    LET base == IF c = "CoerceTextStatement" THEN "Statement" ELSE c
    IN  [impl_class |-> c,
         _role_class |-> base,
         name |-> base,
         _use_inspection |-> UsesInspection(base)]

\* RoleImpl.__init__(role_class) of class c
RoleImpl(c, role_class) ==
    [impl_class |-> c,
     _role_class |-> role_class,
     name |-> role_class,
     _use_inspection |-> UsesInspection(role_class)]

\* A name is the sequence of its parts: <<"OrderBy", "Role">> is OrderByRole.
RoleName(r) == <<r, "Role">>
ImplName(c) == <<c, "Impl">>
\* dir(roles): the role classes and a name that does not end in "Role"
dir_roles == {RoleName(r) : r \in DeclaredRoles} \cup {<<"UsesInspection">>}
\* globals() of coercions when the loop runs
globals ==
    {ImplName(c) : c \in ImplClasses} \cup
    {<<"Role", "Impl">>, <<"_StringOnly">>, <<"_ReturnsStringKey">>,
     <<"_ColumnCoercions">>, <<"_NoTextCoercion">>, <<"_CoerceLiterals">>,
     <<"expect">>, <<"expect_as_key">>, <<"_is_literal">>}
\* name.endswith("Role")
endswith_Role(name) == Len(name) > 0 /\ name[Len(name)] = "Role"
\* name.replace("Role", "Impl")
replace_Role_Impl(name) ==
    [i \in 1..Len(name) |-> IF name[i] = "Role" THEN "Impl" ELSE name[i]]

\* The registry after the loop at the end of the module: for each name of
\* roles that ends in "Role" and whose replaced name is a global of
\* coercions, the class of that name is the key (a role class is named by
\* its stem) and the global, called with the class, the value.
Bootstrap ==
    LET found == {n \in dir_roles :
                     endswith_Role(n) /\ replace_Role_Impl(n) \in globals}
    IN  [r \in {n[1] : n \in found} |->
            RoleImpl(replace_Role_Impl(RoleName(r))[1], r)]

----------------------------------------------------------------------------
\* Keyword arguments and the way a call ends.

NoKw == [k \in {} |-> PyNone]
Has(k, n) == n \in DOMAIN k
\* the value of a keyword parameter whose default is None (or False)
Get(k, n) == IF n \in DOMAIN k THEN k[n] ELSE PyNone
KwWith(k, n, v) == [x \in DOMAIN k \cup {n} |-> IF x = n THEN v ELSE k[x]]
KwDrop(k, keys) == [x \in DOMAIN k \ keys |-> k[x]]

\* bool(v)
Truthy(v) ==
    CASE v.cls = "NoneType" -> FALSE
      [] v.cls = "bool" -> v.b
      [] v.cls = "int" -> v.n # 0
      [] v.cls \in {"str", "_truncated_label"} -> Len(v.s) > 0
      [] v.cls = "list" -> Len(v.items) > 0
      [] OTHER -> TRUE

\* Whether Python binds a call with keyword arguments k to a function whose
\* keyword-capable parameters are req (no default) and opt (defaulted), with
\* or without a trailing **kw.  A call that does not bind raises TypeError.
Binds(k, req, opt, varkw) ==
    /\ req \subseteq DOMAIN k
    /\ varkw \/ DOMAIN k \subseteq req \cup opt

Return(v) == [kind |-> "return", value |-> v]
Raise(kind, msg) == [kind |-> kind, msg |-> msg]
NoOutcome == [kind |-> "none"]
PythonError(kind) == Raise(kind, [shape |-> "python"])

\* RoleImpl._raise_for_expected(element, argname=None)
_raise_for_expected(impl, el, argname) ==
    IF Truthy(argname)
    THEN Raise("ArgumentError",
               [shape |-> "expected for argument", name |-> impl.name,
                argname |-> argname, got |-> el])
    ELSE Raise("ArgumentError",
               [shape |-> "expected", name |-> impl.name, got |-> el])

\* _no_text_coercion(element, argname=None)
_no_text_coercion(el, argname) ==
    Raise("ArgumentError",
          [shape |-> "textual sql", expr |-> ellipses_string(el.s),
           argname |-> IF Truthy(argname) THEN argname ELSE PyNone])

\* BindParameter(name, value, type_, unique=True), with the type taken from
\* type_ when given and from the value otherwise
NewBindParameter(value, type_) ==
    LET t == IF type_.cls = "TypeEngine" THEN type_.type
             ELSE _resolve_value_to_type(value)
    IN  IF t = "ArgumentError"
        THEN Raise("ArgumentError", [shape |-> "not legal", got |-> value])
        ELSE Return(BindParameter(value, t, FALSE))

\* expr._bind_param(operator, obj, type_=None): a BindParameter compared to
\* expr, its type coerced against expr.type
_bind_param(expr, operator, obj, type_) ==
    LET vt == _resolve_value_to_type(obj)
        t  == IF type_.cls = "TypeEngine" THEN type_.type
              ELSE IF vt = "ArgumentError" THEN vt
              ELSE IF vt = NullType THEN TypeOf(expr)
              ELSE vt
    IN  IF t = "ArgumentError"
        THEN Raise("ArgumentError", [shape |-> "not legal", got |-> obj])
        ELSE Return(BindParameter(obj, t, FALSE))

\* _is_literal(element)
_is_literal(v) == ~IsNode(v) /\ ~HasHook(v)

\* int(v) as util.asint applies it: the integer, or the exception raised
Digits == {"0", "1", "2", "3", "4", "5", "6", "7", "8", "9"}
DigitValue(c) == CHOOSE d \in 0..9 : Digit(d) = c
RECURSIVE ParseInt(_)
ParseInt(s) ==
    IF Len(s) = 1 THEN DigitValue(s[1])
    ELSE 10 * ParseInt(SubSeq(s, 1, Len(s) - 1)) + DigitValue(s[Len(s)])
asint(v) ==
    CASE v.cls = "int" -> Return(v)
      [] v.cls = "bool" -> Return(PyInt(IF v.b THEN 1 ELSE 0))
      [] v.cls \in {"str", "_truncated_label"} ->
            IF Len(v.s) > 0 /\ \A i \in 1..Len(v.s) : v.s[i] \in Digits
            THEN Return(PyInt(ParseInt(v.s)))
            ELSE PythonError("ValueError")
      [] OTHER -> PythonError("TypeError")

----------------------------------------------------------------------------
\* _literal_coercion(self, element, **kw) of each class that defines it.
\* impl is the rule set (self), el the element, k the keyword arguments of
\* the call.

\* RoleImpl._literal_coercion
RoleImpl_literal_coercion(impl, el, k) == PythonError("NotImplementedError")

\* A faulty variant: a bare string is coerced to a column of that name
ReturnsStringKey_literal_coercion_Coerces(impl, el, k) ==
    IF IsString(el) THEN Return(ColumnClause(el.s, FALSE)) ELSE Return(el)

\* _ReturnsStringKey._literal_coercion
ReturnsStringKey_literal_coercion(impl, el, k) == Return(el)

\* A faulty variant: the mixin turns a bare string into a text clause for a textual
\* role instead of rejecting it
NoTextCoercion_literal_coercion_CoercesText(impl, el, k) ==
    IF IsString(el) /\ IsSubclassOfRole("TextClause", impl._role_class)
    THEN Return(TextClause(el.s))
    ELSE _raise_for_expected(impl, el, Get(k, "argname"))

\* _NoTextCoercion._literal_coercion
NoTextCoercion_literal_coercion(impl, el, k) ==
    IF IsString(el) /\ IsSubclassOfRole("TextClause", impl._role_class)
    THEN _no_text_coercion(el, Get(k, "argname"))
    ELSE _raise_for_expected(impl, el, Get(k, "argname"))

\* ColumnsClauseImpl._guess_straight_column: ^\w\S*$
WordChars == Digits \cup {"a", "b", "f", "g", "o", "r", "x", "_"}
_guess_straight_column(s) ==
    /\ Len(s) > 0
    /\ s[1] \in WordChars
    /\ \A i \in 2..Len(s) : s[i] # " "

\* _text_coercion(self, element, argname=None) as the class of impl has it
_text_coercion(impl, el, argname) ==
    LET c == Owner(impl.impl_class, "_text_coercion")
    IN  CASE c \in {"_CoerceLiterals", "WhereHaving"} -> _no_text_coercion(el, argname)
          [] c \in {"StatementOption", "DDLExpression", "CoerceTextStatement"} ->
                Return(TextClause(el.s))
          [] c = "ByOf" -> Return(_textual_label_reference(el.s))
          [] c = "ColumnsClause" ->
                Raise("ArgumentError",
                      [shape |-> "textual column",
                       expr |-> ellipses_string(el.s),
                       argname |-> IF Truthy(argname) THEN argname ELSE PyNone,
                       literal_column |-> ~_guess_straight_column(el.s)])

\* A faulty variant: the numeric test comes before the test for None, False and True
CoerceLiterals_literal_coercion_NumericsFirst(impl, el, k) ==
    LET c == impl.impl_class
        argname == Get(k, "argname")
    IN  IF IsString(el)
        THEN IF CoerceFlag(c, "_coerce_star") /\ el.s = STAR
             THEN Return(ColumnClause(STAR, TRUE))
             ELSE _text_coercion(impl, el, argname)
        ELSE IF CoerceFlag(c, "_coerce_numerics") /\ el.cls \in {"int", "bool"}
             THEN Return(ColumnClause(
                     IF el.cls = "int" THEN str(el.n)
                     ELSE IF el.b THEN <<"T", "r", "u", "e">>
                     ELSE <<"F", "a", "l", "s", "e">>, TRUE))
        ELSE IF CoerceFlag(c, "_coerce_consts") /\ el = PyNone THEN Return(Null)
        ELSE IF CoerceFlag(c, "_coerce_consts") /\ el = PyFalse THEN Return(False_)
        ELSE IF CoerceFlag(c, "_coerce_consts") /\ el = PyTrue THEN Return(True_)
        ELSE _raise_for_expected(impl, el, argname)

\* _CoerceLiterals._literal_coercion
CoerceLiterals_literal_coercion(impl, el, k) ==
    LET c == impl.impl_class
        argname == Get(k, "argname")
    IN  IF IsString(el)
        THEN IF CoerceFlag(c, "_coerce_star") /\ el.s = STAR
             THEN Return(ColumnClause(STAR, TRUE))
             ELSE _text_coercion(impl, el, argname)
        ELSE IF CoerceFlag(c, "_coerce_consts") /\ el = PyNone THEN Return(Null)
        ELSE IF CoerceFlag(c, "_coerce_consts") /\ el = PyFalse THEN Return(False_)
        ELSE IF CoerceFlag(c, "_coerce_consts") /\ el = PyTrue THEN Return(True_)
        ELSE IF CoerceFlag(c, "_coerce_numerics") /\ el.cls \in {"int", "bool"}
             THEN Return(ColumnClause(
                     IF el.cls = "int" THEN str(el.n)
                     ELSE IF el.b THEN <<"T", "r", "u", "e">>
                     ELSE <<"F", "a", "l", "s", "e">>, TRUE))
        ELSE _raise_for_expected(impl, el, argname)

\* ExpressionElementImpl._literal_coercion
ExpressionElementImpl_literal_coercion(impl, el, k) ==
    IF el = PyNone THEN Return(Null)
    ELSE LET b == NewBindParameter(el, Get(k, "type_"))
         IN  IF b.kind = "ArgumentError"
             THEN _raise_for_expected(impl, el, PyNone)
             ELSE b

\* BinaryElementImpl._literal_coercion
BinaryElementImpl_literal_coercion(impl, el, k) ==
    IF ~Binds(k, {"expr", "operator"}, {"bindparam_type", "argname"}, TRUE)
    THEN PythonError("TypeError")
    ELSE LET b == _bind_param(k.expr, k.operator, el, Get(k, "bindparam_type"))
         IN  IF b.kind = "ArgumentError"
             THEN _raise_for_expected(impl, el, PyNone)
             ELSE b

\* self._raise_for_expected(element, **kw)
_raise_for_expected_kw(impl, el, k) ==
    IF Binds(k, {}, {"argname"}, FALSE)
    THEN _raise_for_expected(impl, el, Get(k, "argname"))
    ELSE PythonError("TypeError")

\* the loop over the elements of the iterable in InElementImpl
RECURSIVE InElementImpl_items(_, _, _, _, _, _)
InElementImpl_items(impl, el, k, items, rest, args) ==
    IF items = <<>> THEN Return(ClauseList(args))
    ELSE LET o == Head(items)
         IN  IF ~_is_literal(o)
             THEN IF ~IsColumnOperators(o)
                  THEN _raise_for_expected_kw(impl, el, rest)
                  ELSE InElementImpl_items(impl, el, k, Tail(items), rest,
                                           Append(args, o))
             ELSE IF o = PyNone
             THEN InElementImpl_items(impl, el, k, Tail(items), rest,
                                      Append(args, Null))
             ELSE LET b == _bind_param(k.expr, k.operator, o, PyNone)
                  IN  IF b.kind # "return" THEN b
                      ELSE InElementImpl_items(impl, el, k, Tail(items), rest,
                                               Append(args, b.value))

\* InElementImpl._literal_coercion
InElementImpl_literal_coercion(impl, el, k) ==
    IF ~Binds(k, {"expr", "operator"}, {}, TRUE)
    THEN PythonError("TypeError")
    ELSE LET rest == KwDrop(k, {"expr", "operator"})
         IN  IF el.cls = "list"
             THEN InElementImpl_items(impl, el, k, el.items, rest, <<>>)
             ELSE _raise_for_expected_kw(impl, el, rest)

\* ConstExprImpl._literal_coercion
ConstExprImpl_literal_coercion(impl, el, k) ==
    IF el = PyNone THEN Return(Null)
    ELSE IF el = PyFalse THEN Return(False_)
    ELSE IF el = PyTrue THEN Return(True_)
    ELSE _raise_for_expected(impl, el, Get(k, "argname"))

\* elements._truncated_label(value): a string subclass built from str(value);
\* None stays None
new_truncated_label(v) ==
    CASE IsString(v) -> _truncated_label(v.s)
      [] v.cls = "NoneType" -> PyNone
      [] v.cls = "int" -> _truncated_label(str(v.n))
      [] OTHER -> _truncated_label(<<"<", v.cls, ">">>)

\* TruncatedLabelImpl._literal_coercion
TruncatedLabelImpl_literal_coercion(impl, el, k) ==
    IF el.cls = "_truncated_label" THEN Return(el)
    ELSE Return(new_truncated_label(el))

\* LimitOffsetImpl._literal_coercion
LimitOffsetImpl_literal_coercion(impl, el, k) ==
    IF ~Binds(k, {"name", "type_"}, {}, TRUE) THEN PythonError("TypeError")
    ELSE IF el = PyNone THEN Return(PyNone)
    ELSE LET value == asint(el)
         IN  IF value.kind # "return" THEN value
             ELSE Return(_OffsetLimitParam(
                     value.value,
                     IF k.type_.cls = "TypeEngine" THEN k.type_.type
                     ELSE "Integer"))

\* self._literal_coercion(element, **k): the method of the first class in
\* the resolution order of impl's class that defines it
_literal_coercion(impl, el, k) ==
    LET c == Owner(impl.impl_class, "_literal_coercion")
    IN  CASE c = "RoleImpl" -> RoleImpl_literal_coercion(impl, el, k)
          [] c = "_ReturnsStringKey" -> ReturnsStringKey_literal_coercion(impl, el, k)
          [] c = "_NoTextCoercion" -> NoTextCoercion_literal_coercion(impl, el, k)
          [] c = "_CoerceLiterals" -> CoerceLiterals_literal_coercion(impl, el, k)
          [] c = "ExpressionElement" -> ExpressionElementImpl_literal_coercion(impl, el, k)
          [] c = "BinaryElement" -> BinaryElementImpl_literal_coercion(impl, el, k)
          [] c = "InElement" -> InElementImpl_literal_coercion(impl, el, k)
          [] c = "ConstExpr" -> ConstExprImpl_literal_coercion(impl, el, k)
          [] c = "TruncatedLabel" -> TruncatedLabelImpl_literal_coercion(impl, el, k)
          [] c = "LimitOffset" -> LimitOffsetImpl_literal_coercion(impl, el, k)

----------------------------------------------------------------------------
\* _implicit_coercions(self, original_element, resolved, **kw) of each class
\* that defines it.  The result is the outcome and the number of deprecation
\* notices emitted on the way.  Reading an attribute of a resolved value
\* that is no tree node raises AttributeError.

Quiet(out) == [out |-> out, warn |-> 0]
Warned(out) == [out |-> out, warn |-> 1]

\* RoleImpl._implicit_coercions
RoleImpl_implicit_coercions(impl, el, resolved, k) ==
    Quiet(_raise_for_expected(impl, el, Get(k, "argname")))

\* _ReturnsStringKey._implicit_coercions
ReturnsStringKey_implicit_coercions(impl, el, resolved, k) ==
    IF IsString(el) THEN Quiet(Return(el))
    ELSE Quiet(_raise_for_expected(impl, el, Get(k, "argname")))

\* _ColumnCoercions._implicit_coercions
ColumnCoercions_implicit_coercions(impl, el, resolved, k) ==
    IF ~IsNode(resolved) THEN Quiet(PythonError("AttributeError"))
    ELSE IF _is_select_statement(resolved)
    THEN Warned(Return(ScalarSelect(resolved)))
    ELSE IF /\ _is_from_clause(resolved)
            /\ IsAlias(resolved)
            /\ _is_select_statement(original(resolved))
    THEN Warned(Return(ScalarSelect(original(resolved))))
    ELSE Quiet(_raise_for_expected(impl, el, Get(k, "argname")))

\* InElementImpl._implicit_coercions and DMLSelectImpl._implicit_coercions
SelectOfFrom_implicit_coercions(impl, el, resolved, k) ==
    IF ~IsNode(resolved) THEN Quiet(PythonError("AttributeError"))
    ELSE IF _is_from_clause(resolved)
    THEN IF IsAlias(resolved) /\ _is_select_statement(original(resolved))
         THEN Quiet(Return(original(resolved)))
         ELSE Quiet(Return(Select(resolved)))
    ELSE Quiet(_raise_for_expected(impl, el, Get(k, "argname")))

\* TruncatedLabelImpl._implicit_coercions
TruncatedLabelImpl_implicit_coercions(impl, el, resolved, k) ==
    IF IsString(el) THEN Quiet(Return(resolved))
    ELSE Quiet(_raise_for_expected(impl, el, Get(k, "argname")))

\* LimitOffsetImpl._implicit_coercions
LimitOffsetImpl_implicit_coercions(impl, el, resolved, k) ==
    IF resolved = PyNone THEN Quiet(Return(PyNone))
    ELSE Quiet(_raise_for_expected(impl, el, Get(k, "argname")))

\* LabeledColumnExprImpl._implicit_coercions
LabeledColumnExprImpl_implicit_coercions(impl, el, resolved, k) ==
    IF IsSubclassOfRole(resolved.cls, "ExpressionElement")
    THEN Quiet(Return(Label(<<>>, resolved)))
    ELSE LET new == ColumnCoercions_implicit_coercions(impl, el, resolved, k)
         IN  IF new.out.kind # "return" THEN new
             ELSE IF IsSubclassOfRole(new.out.value.cls, "ExpressionElement")
             THEN [out |-> Return(Label(<<>>, new.out.value)), warn |-> new.warn]
             ELSE [out |-> _raise_for_expected(impl, el, Get(k, "argname")),
                   warn |-> new.warn]

\* SelectStatementImpl._implicit_coercions
SelectStatementImpl_implicit_coercions(impl, el, resolved, k) ==
    IF ~IsNode(resolved) THEN Quiet(PythonError("AttributeError"))
    ELSE IF _is_text_clause(resolved) THEN Quiet(Return(TextualSelect(resolved)))
    ELSE Quiet(_raise_for_expected(impl, el, Get(k, "argname")))

\* FromClauseImpl._implicit_coercions
FromClauseImpl_implicit_coercions(impl, el, resolved, k) ==
    IF ~IsNode(resolved) THEN Quiet(PythonError("AttributeError"))
    ELSE IF _is_text_clause(resolved) THEN Quiet(Return(resolved))
    ELSE Quiet(_raise_for_expected(impl, el, Get(k, "argname")))

\* A faulty variant: a SELECT is wrapped whatever allow_select is
StrictFromClauseImpl_implicit_coercions_IgnoresFlag(impl, el, resolved, k) ==
    IF ~IsNode(resolved) THEN Quiet(PythonError("AttributeError"))
    ELSE IF _is_select_statement(resolved)
    THEN Warned(Return(Subquery(resolved)))
    ELSE Quiet(_raise_for_expected(impl, el, Get(k, "argname")))

\* StrictFromClauseImpl._implicit_coercions
StrictFromClauseImpl_implicit_coercions(impl, el, resolved, k) ==
    IF ~IsNode(resolved) THEN Quiet(PythonError("AttributeError"))
    ELSE IF _is_select_statement(resolved) /\ Truthy(Get(k, "allow_select"))
    THEN Warned(Return(Subquery(resolved)))
    ELSE Quiet(_raise_for_expected(impl, el, Get(k, "argname")))

\* CompoundElementImpl._implicit_coercions, which takes no **kw
CompoundElementImpl_implicit_coercions(impl, el, resolved, k) ==
    IF ~Binds(k, {}, {"argname"}, FALSE) THEN Quiet(PythonError("TypeError"))
    ELSE IF ~IsNode(resolved) THEN Quiet(PythonError("AttributeError"))
    ELSE IF _is_from_clause(resolved) THEN Quiet(Return(resolved))
    ELSE Quiet(_raise_for_expected(impl, el, Get(k, "argname")))

\* self._implicit_coercions(element, resolved, **k)
_implicit_coercions(impl, el, resolved, k) ==
    LET c == Owner(impl.impl_class, "_implicit_coercions")
    IN  CASE c = "RoleImpl" -> RoleImpl_implicit_coercions(impl, el, resolved, k)
          [] c = "_ReturnsStringKey" ->
                ReturnsStringKey_implicit_coercions(impl, el, resolved, k)
          [] c = "_ColumnCoercions" ->
                ColumnCoercions_implicit_coercions(impl, el, resolved, k)
          [] c \in {"InElement", "DMLSelect"} ->
                SelectOfFrom_implicit_coercions(impl, el, resolved, k)
          [] c = "TruncatedLabel" ->
                TruncatedLabelImpl_implicit_coercions(impl, el, resolved, k)
          [] c = "LimitOffset" ->
                LimitOffsetImpl_implicit_coercions(impl, el, resolved, k)
          [] c = "LabeledColumnExpr" ->
                LabeledColumnExprImpl_implicit_coercions(impl, el, resolved, k)
          [] c = "SelectStatement" ->
                SelectStatementImpl_implicit_coercions(impl, el, resolved, k)
          [] c = "FromClause" ->
                FromClauseImpl_implicit_coercions(impl, el, resolved, k)
          [] c = "StrictFromClause" ->
                StrictFromClauseImpl_implicit_coercions(impl, el, resolved, k)
          [] c = "CompoundElement" ->
                CompoundElementImpl_implicit_coercions(impl, el, resolved, k)

----------------------------------------------------------------------------
\* _post_coercion(self, resolved, **kw) of each class that defines it.

\* BinaryElementImpl._post_coercion
BinaryElementImpl_post_coercion(impl, resolved, k) ==
    IF ~Binds(k, {"expr"}, {}, TRUE) THEN PythonError("TypeError")
    ELSE IF IsBindParameter(resolved) /\ _isnull(resolved.type)
    THEN Return([resolved EXCEPT !.type = TypeOf(k.expr)])
    ELSE Return(resolved)

\* A faulty variant: the pair of empty markers is not swapped for an operator other
\* than IN
InElementImpl_post_coercion_NoSwap(impl, el, k) ==
    IF ~Binds(k, {"expr", "operator"}, {}, TRUE) THEN PythonError("TypeError")
    ELSE IF _is_select_statement(el) THEN Return(ScalarSelect(el))
    ELSE IF IsClauseList(el)
    THEN IF Len(el.clauses) = 0
         THEN Return(_annotate(Grouping(el, "empty_in_op"),
                               [in_ops |-> <<"empty_in_op", "empty_notin_op">>]))
         ELSE Return(Grouping(el, k.operator.op))
    ELSE IF IsBindParameter(el) /\ el.expanding
    THEN IF k.expr.cls = "Tuple"
         THEN Return(_with_expanding_in_types(
                 el, [i \in 1..Len(k.expr.clauses) |-> TypeOf(k.expr.clauses[i])]))
         ELSE Return(el)
    ELSE Return(el)

\* InElementImpl._post_coercion
InElementImpl_post_coercion(impl, el, k) ==
    IF ~Binds(k, {"expr", "operator"}, {}, TRUE) THEN PythonError("TypeError")
    ELSE IF _is_select_statement(el) THEN Return(ScalarSelect(el))
    ELSE IF IsClauseList(el)
    THEN IF Len(el.clauses) = 0
         THEN LET op == IF k.operator = Operator("in_op")
                        THEN "empty_in_op" ELSE "empty_notin_op"
                  negate_op == IF k.operator = Operator("in_op")
                               THEN "empty_notin_op" ELSE "empty_in_op"
              IN  Return(_annotate(Grouping(el, op),
                                   [in_ops |-> <<op, negate_op>>]))
         ELSE Return(Grouping(el, k.operator.op))
    ELSE IF IsBindParameter(el) /\ el.expanding
    THEN IF k.expr.cls = "Tuple"
         THEN Return(_with_expanding_in_types(
                 el, [i \in 1..Len(k.expr.clauses) |-> TypeOf(k.expr.clauses[i])]))
         ELSE Return(el)
    ELSE Return(el)

\* OrderByImpl._post_coercion, which takes no keyword argument at all
OrderByImpl_post_coercion(impl, resolved, k) ==
    IF ~Binds(k, {}, {}, FALSE) THEN PythonError("TypeError")
    ELSE IF /\ IsSubclassOfRole(resolved.cls, impl._role_class)
            /\ _order_by_label_element(resolved) # PyNone
    THEN Return(_label_reference(resolved))
    ELSE Return(resolved)

\* DMLColumnImpl._post_coercion, which takes as_key and no **kw
DMLColumnImpl_post_coercion(impl, el, k) ==
    IF ~Binds(k, {}, {"as_key"}, FALSE) THEN PythonError("TypeError")
    ELSE IF Truthy(Get(k, "as_key")) THEN Return(key(el))
    ELSE Return(el)

\* A faulty variant: an element that is an alias already is not aliased again
AnonymizedFromClauseImpl_post_coercion_Once(impl, el, k) ==
    IF IsAlias(el) THEN Return(el)
    ELSE Return(Alias(el, Truthy(Get(k, "flat"))))

\* AnonymizedFromClauseImpl._post_coercion
AnonymizedFromClauseImpl_post_coercion(impl, el, k) ==
    Return(Alias(el, Truthy(Get(k, "flat"))))

\* impl._post_coercion is not None
HasPostCoercion(impl) == Owner(impl.impl_class, "_post_coercion") # "RoleImpl"

\* impl._post_coercion(resolved, **k)
_post_coercion(impl, resolved, k) ==
    LET c == Owner(impl.impl_class, "_post_coercion")
    IN  CASE c = "BinaryElement" -> BinaryElementImpl_post_coercion(impl, resolved, k)
          [] c = "InElement" -> InElementImpl_post_coercion(impl, resolved, k)
          [] c = "OrderBy" -> OrderByImpl_post_coercion(impl, resolved, k)
          [] c = "DMLColumn" -> DMLColumnImpl_post_coercion(impl, resolved, k)
          [] c = "AnonymizedFromClause" ->
                AnonymizedFromClauseImpl_post_coercion(impl, resolved, k)

----------------------------------------------------------------------------
\* expect() and RoleImpl._resolve_for_clause_element().
\* The result of a call is a record: its outcome, the deprecation notices it
\* emitted, the rule-set methods it called and the argument it handed to
\* _literal_coercion (NoValue when it did not call it).

Effect(out, warn, tr, lit) ==
    [out |-> out, warn |-> warn, trace |-> tr, lit |-> lit]

\* expect(), from the test of resolved's class on
TypeCheck(impl, el, resolved, k, tr, lit) ==
    IF IsSubclassOfRole(resolved.cls, impl._role_class)
    THEN IF HasPostCoercion(impl)
         THEN Effect(_post_coercion(impl, resolved, k), 0,
                     Append(tr, "_post_coercion"), lit)
         ELSE Effect(Return(resolved), 0, tr, lit)
    ELSE LET ic == _implicit_coercions(impl, el, resolved, k)
         IN  Effect(ic.out, ic.warn, Append(tr, "_implicit_coercions"), lit)

\* a value returned by _resolve_for_clause_element goes on to the class
\* test; an exception ends the call
Continue(impl, el, res, k, tr, lit) ==
    IF res.kind = "return" THEN TypeCheck(impl, el, res.value, k, tr, lit)
    ELSE Effect(res, 0, tr, lit)

\* _StringOnly._resolve_for_clause_element, and expect() after it
StringOnly_resolve(impl, el, k) ==
    Continue(impl, el, _literal_coercion(impl, el, KwDrop(k, {"argname"})), k,
             <<"_resolve_for_clause_element", "_literal_coercion">>, el)

\* A faulty variant: a descriptor without a hook falls through to literal coercion
NotClauseElement_resolve_FallsThrough(impl, el, k) ==
    LET argname == Get(k, "argname")
        insp == Inspect(el)
        tr == <<"_resolve_for_clause_element">>
    IN  IF impl._use_inspection /\ insp.exists /\ insp.hook
        THEN Continue(impl, el, Return(insp.target), k,
                      Append(tr, "inspect"), NoValue)
        ELSE Continue(impl, el,
                      _literal_coercion(impl, el, KwWith(k, "argname", argname)),
                      k, Append(tr, "_literal_coercion"), el)

\* RoleImpl._resolve_for_clause_element after its loop, for a value on which
\* no hook was invoked (is_clause_element is False), and expect() after it
NotClauseElement_resolve(impl, el, k) ==
    LET argname == Get(k, "argname")
        insp == Inspect(el)
        tr == <<"_resolve_for_clause_element">>
    IN  IF impl._use_inspection /\ insp.exists
        THEN IF insp.hook
             THEN Continue(impl, el, Return(insp.target), k,
                           Append(tr, "inspect"), NoValue)
             ELSE Effect(_raise_for_expected(impl, el, argname), 0,
                         Append(tr, "inspect"), NoValue)
        ELSE Continue(impl, el,
                      _literal_coercion(impl, el, KwWith(k, "argname", argname)),
                      k, Append(tr, "_literal_coercion"), el)

\* whether resolution enters the body of the hook loop
EntersLoop(impl, el) ==
    /\ ~IsNode(el)
    /\ Owner(impl.impl_class, "_resolve_for_clause_element") = "RoleImpl"
    /\ HasHook(el)

\* A faulty variant: expect without the test that skips resolution for a node
ExpectNoLoop_AlwaysResolves(lookup, r, el, k) ==
    IF r \notin DOMAIN lookup THEN Effect(PythonError("KeyError"), 0, <<>>, NoValue)
    ELSE LET impl == lookup[r]
         IN  IF Owner(impl.impl_class, "_resolve_for_clause_element")
                    = "_StringOnly"
             THEN StringOnly_resolve(impl, el, k)
             ELSE NotClauseElement_resolve(impl, el, k)

\* expect(role, el, **k) for an element on which no hook is invoked
ExpectNoLoop(lookup, r, el, k) ==
    IF r \notin DOMAIN lookup THEN Effect(PythonError("KeyError"), 0, <<>>, NoValue)
    ELSE LET impl == lookup[r]
         IN  IF IsNode(el) THEN TypeCheck(impl, el, el, k, <<>>, NoValue)
             ELSE IF Owner(impl.impl_class, "_resolve_for_clause_element")
                        = "_StringOnly"
             THEN StringOnly_resolve(impl, el, k)
             ELSE NotClauseElement_resolve(impl, el, k)

----------------------------------------------------------------------------
\* The inputs of the model.

TypedColumn ==
    [cls |-> "ColumnClause", text |-> <<"c">>, is_literal |-> FALSE,
     type |-> "Integer"]
PlainColumn == ColumnClause(FOO, FALSE)

Literals ==
    {PyStr(STAR), PyStr(FOO), PyStr(RAW_SQL), PyStr(LONG), PyStr(<<"1", "2">>),
     PyInt(5), PyInt(0), PyInt(12), PyNone, PyTrue, PyFalse,
     List(<<>>), List(<<PyInt(1)>>), List(<<PyInt(1), PyNone, PlainColumn>>),
     List(<<Table>>), List(<<Inspectable("m2")>>),
     PlainObject, _truncated_label(FOO)}
Objects ==
    {Wrapper("w1"), Wrapper("w2"), Wrapper("w3"), Wrapper("w4"), Wrapper("w6"),
     Wrapper("w7"), Wrapper("w8"), Wrapper("w9"), Inspectable("m1"),
     Inspectable("m2")}
Nodes ==
    {Table, HookedTable, Select(Table), Alias(Table, FALSE),
     Subquery(Select(Table)), TextClause(RAW_SQL), PlainColumn, Label(ARG, PlainColumn),
     BindParameter(PyInt(5), NullType, FALSE),
     BindParameter(PyInt(5), "Integer", FALSE),
     BindParameter(List(<<PyInt(1)>>), NullType, TRUE),
     ClauseList(<<>>), ClauseList(<<PlainColumn>>), Null, True_, False_}
Elements == Literals \cup Objects \cup Nodes

Options ==
    {NoKw,
     [argname |-> PyStr(ARG)],
     [argname |-> PyStr(<<>>)],
     [allow_select |-> PyTrue],
     [allow_select |-> PyFalse],
     [allow_select |-> PyTrue, argname |-> PyStr(ARG)],
     [flat |-> PyTrue],
     [expr |-> TypedColumn, operator |-> Operator("in_op")],
     [expr |-> TypedColumn, operator |-> Operator("notin_op")],
     [expr |-> TypedColumn, operator |-> Operator("eq")],
     [expr |-> TypedColumn, operator |-> Operator("in_op"), argname |-> PyStr(ARG)],
     [expr |-> Tuple(<<TypedColumn, PlainColumn>>), operator |-> Operator("in_op")],
     [name |-> PyNone, type_ |-> PyNone],
     [name |-> PyNone, type_ |-> TypeEngine("String"), argname |-> PyStr(ARG)]}

----------------------------------------------------------------------------
\* The state machine.

Init ==
    /\ pc = "idle"
    /\ role = "<unset>"
    /\ element = NoValue
    /\ kw = NoKw
    /\ cur = NoValue
    /\ hooks = 0
    /\ outcome = NoOutcome
    /\ warnings = 0
    /\ trace = <<>>
    /\ lit_arg = NoValue
    /\ first = NoOutcome
    /\ again = FALSE
    /\ impl_lookup = Bootstrap

\* the call ends with effect eff
Finished(eff) ==
    /\ pc' = "done"
    /\ outcome' = eff.out
    /\ warnings' = eff.warn
    /\ trace' = eff.trace
    /\ lit_arg' = eff.lit

\* a call expect(r, el, **k) is made; it runs to its end unless it enters
\* the hook loop
Begin(r, el, k) ==
    /\ role' = r
    /\ element' = el
    /\ kw' = k
    /\ hooks' = 0
    /\ UNCHANGED impl_lookup
    /\ IF r \in DOMAIN impl_lookup /\ EntersLoop(impl_lookup[r], el)
       THEN /\ pc' = "unwrap"
            /\ cur' = el
            /\ outcome' = NoOutcome
            /\ warnings' = 0
            /\ trace' = <<"_resolve_for_clause_element">>
            /\ lit_arg' = NoValue
       ELSE /\ cur' = el
            /\ Finished(ExpectNoLoop(impl_lookup, r, el, k))

\* expect(role, element, **kw)
expect(r, el, k) ==
    /\ pc = "idle"
    /\ Begin(r, el, k)
    /\ UNCHANGED <<first, again>>

\* expect_as_key(role, element, **kw)
expect_as_key(r, el, k) ==
    /\ pc = "idle"
    /\ Begin(r, el, KwWith(k, "as_key", PyTrue))
    /\ UNCHANGED <<first, again>>

\* A faulty variant: the loop goes on while the value has a hook, whether or
\* not it is a tree node already
HookStep_IgnoresNode ==
    /\ pc = "unwrap"
    /\ hooks < MaxHooks
    /\ LET new == ClauseElementHook(cur)
       IN  /\ cur' = new
           /\ hooks' = hooks + 1
           /\ IF HasHook(new)
              THEN UNCHANGED <<pc, outcome, warnings, trace, lit_arg>>
              ELSE Finished(TypeCheck(impl_lookup[role], element, new, kw,
                                      trace, NoValue))
    /\ UNCHANGED <<role, element, kw, first, again, impl_lookup>>

\* one turn of the loop of _resolve_for_clause_element: the hook of the
\* current value is invoked; when its result is a node or has no hook the
\* loop ends, the result is `resolved` and expect() runs to its end
HookStep ==
    /\ pc = "unwrap"
    /\ hooks < MaxHooks
    /\ LET new == ClauseElementHook(cur)
       IN  /\ cur' = new
           /\ hooks' = hooks + 1
           /\ IF HasHook(new) /\ ~IsNode(new)
              THEN UNCHANGED <<pc, outcome, warnings, trace, lit_arg>>
              ELSE Finished(TypeCheck(impl_lookup[role], element, new, kw,
                                      trace, NoValue))
    /\ UNCHANGED <<role, element, kw, first, again, impl_lookup>>

\* the caller hands the value expect returned to expect again, with the same
\* role and options
ExpectAgain ==
    /\ pc = "done"
    /\ ~again
    /\ outcome.kind = "return"
    /\ Begin(role, outcome.value, kw)
    /\ first' = outcome
    /\ again' = TRUE

\* visitors.traverse(v, {}, {"column": cols.append}): the columns of v, in
\* the order the traversal meets them
RECURSIVE traverse_columns(_)
traverse_columns(v) ==
    CASE v.cls = "ColumnClause" -> <<v>>
      [] v.cls \in {"Label", "Grouping"} -> traverse_columns(v.element)
      [] v.cls \in {"ClauseList", "Tuple"} ->
            IF Len(v.clauses) = 0 THEN <<>>
            ELSE traverse_columns(v.clauses[1]) \o
                 traverse_columns([v EXCEPT !.clauses = Tail(v.clauses)])
      [] OTHER -> <<>>

\* what expect_col_expression_collection yields for expr once expect has
\* returned resolved
CollectionItem(expr, resolved) ==
    IF IsString(resolved)
    THEN [resolved |-> expr, column |-> PyNone, strname |-> expr,
          add_element |-> expr]
    ELSE LET cols == traverse_columns(resolved)
             column == IF Len(cols) > 0 THEN cols[1] ELSE PyNone
         IN  [resolved |-> resolved, column |-> column, strname |-> PyNone,
              add_element |-> column]

\* the generator consumed to its end: the items yielded for expressions, or
\* the exception of the first call of expect that raises
RECURSIVE Collect(_, _, _, _)
Collect(lookup, r, expressions, yielded) ==
    IF expressions = <<>>
    THEN Effect(Return([cls |-> "generator", items |-> yielded]), 0, <<>>, NoValue)
    ELSE LET expr == Head(expressions)
             eff == ExpectNoLoop(lookup, r, expr, NoKw)
         IN  IF eff.out.kind # "return" THEN eff
             ELSE Collect(lookup, r, Tail(expressions),
                          Append(yielded, CollectionItem(expr, eff.out.value)))

\* the collections of column expressions handed to the batch variant
Collections ==
    {<<>>, <<PyStr(FOO)>>, <<PlainColumn>>, <<PyStr(FOO), PlainColumn>>,
     <<Label(ARG, PlainColumn), PyStr(STAR)>>, <<PlainColumn, PyInt(5)>>,
     <<ClauseList(<<PlainColumn>>)>>, <<Table>>}

\* expect_col_expression_collection(role, expressions), consumed by its
\* caller
expect_col_expression_collection(r, expressions) ==
    /\ pc = "idle"
    /\ pc' = "collected"
    /\ role' = r
    /\ element' = List(expressions)
    /\ kw' = NoKw
    /\ cur' = NoValue
    /\ hooks' = 0
    /\ LET eff == Collect(impl_lookup, r, expressions, <<>>)
       IN  /\ outcome' = eff.out
           /\ warnings' = eff.warn
           /\ trace' = eff.trace
           /\ lit_arg' = eff.lit
    /\ UNCHANGED <<first, again, impl_lookup>>

Next ==
    \/ /\ pc = "idle"
       /\ \E r \in DeclaredRoles, el \in Elements, k \in Options : expect(r, el, k)
    \/ /\ pc = "idle"
       /\ \E r \in DeclaredRoles, el \in Elements, k \in Options :
             expect_as_key(r, el, k)
    \/ /\ pc = "idle"
       /\ \E r \in DeclaredRoles, c \in Collections :
             expect_col_expression_collection(r, c)
    \/ HookStep
    \/ ExpectAgain

Spec == Init /\ [][Next]_vars

\* The calls of expect on objects that are no tree nodes, in which a call that
\* is in the hook loop goes on running: the interpreter does not stop between
\* two turns of the loop.
HookOptions ==
    {NoKw,
     [argname |-> PyStr(ARG)],
     [allow_select |-> PyTrue],
     [expr |-> TypedColumn, operator |-> Operator("in_op")]}

HookNext ==
    \/ /\ pc = "idle"
       /\ \E r \in DeclaredRoles, el \in Objects, k \in HookOptions :
             expect(r, el, k)
    \/ HookStep

HookSpec == Init /\ [][HookNext]_vars /\ WF_vars(HookStep)

----------------------------------------------------------------------------
\* Properties.

\* a call of expect has run to its end on a registered role
Done == pc = "done" /\ role \in DOMAIN impl_lookup
\* the original element is a node whose class is a member of the role class
Accepted == IsNode(element) /\ IsSubclassOfRole(element.cls, role)
\* the call invoked method m of the rule set
Called(m) == \E i \in DOMAIN trace : trace[i] = m
RolesWithPostCoercion ==
    {"AnonymizedFromClause", "OrderBy", "InElement", "BinaryElement", "DMLColumn"}

\* the options of the call bound to every method the call invoked
OptionsBind == outcome.kind # "TypeError"

\* C1 (as stated): for every registered role R and every node N of R's role
\* class, expect(R, N) returns N itself and nothing is applied to N on the
\* way, the roles with a post-coercion step included.  Stated for the calls
\* whose options bind.
C1_Original ==
    (Done /\ Accepted /\ OptionsBind) =>
        (outcome = Return(element) /\ trace = <<>>)

\* C1 (amended): for every registered role and every node N of its role
\* class, expect invokes neither resolution, literal coercion nor implicit
\* coercion on N; a role without a post-coercion step returns N itself; a
\* role with one (AnonymizedFromClause, OrderBy, InElement, BinaryElement,
\* DMLColumn) ends as its post-coercion step applied to N ends.
C1_FastPath ==
    (Done /\ Accepted) =>
        IF role \in RolesWithPostCoercion
        THEN /\ trace = <<"_post_coercion">>
             /\ lit_arg = NoValue
             /\ outcome = _post_coercion(impl_lookup[role], element, kw)
        ELSE /\ trace = <<>>
             /\ lit_arg = NoValue
             /\ outcome = Return(element)

C1_Witness ==
    /\ Done /\ Accepted
    /\ role = "WhereHaving"
    /\ element = PlainColumn
    /\ "argname" \in DOMAIN kw
    /\ outcome = Return(element)

NoTextRoles ==
    {"ColumnArgument", "Statement", "SelectStatement", "FromClause",
     "StrictFromClause", "AnonymizedFromClause", "DMLSelect", "CompoundElement"}

\* C3: for every role of the no-text-coercion mixin, expect on a bare string
\* ends in the argument error and returns no value, with or without argname
\* and on either message branch of the mixin.
C3_NoTextRaises ==
    (Done /\ role \in NoTextRoles /\ element.cls = "str") =>
        outcome.kind = "ArgumentError"

C3_Witness ==
    /\ Done
    /\ role = "SelectStatement"
    /\ element = PyStr(RAW_SQL)
    /\ Truthy(Get(kw, "argname"))
    /\ outcome.kind = "ArgumentError"
    /\ outcome.msg.shape = "textual sql"

\* what C4 says of a call that hands a SELECT to a FROM-clause role
SelectToFrom ==
    IF Truthy(Get(kw, "allow_select"))
    THEN outcome = Return(Subquery(element)) /\ warnings = 1
    ELSE outcome.kind = "ArgumentError" /\ warnings = 0

\* C4 (as stated): for each of FromClause, StrictFromClause and
\* AnonymizedFromClause, a SELECT is rejected without a notice unless
\* allow_select is true, and then the subquery of the SELECT is returned and
\* exactly one deprecation notice is emitted.
C4_Original ==
    (/\ Done
     /\ role \in {"FromClause", "StrictFromClause", "AnonymizedFromClause"}
     /\ element.cls = "Select") => SelectToFrom

\* C4 (amended): that holds for StrictFromClause and AnonymizedFromClause;
\* the FromClause role rejects a SELECT with the argument error and without
\* a notice whatever allow_select is.
C4_SelectToFrom ==
    (Done /\ element.cls = "Select") =>
        /\ role \in {"StrictFromClause", "AnonymizedFromClause"} => SelectToFrom
        /\ role = "FromClause" => (outcome.kind = "ArgumentError" /\ warnings = 0)

C4_Witness ==
    /\ Done
    /\ role = "AnonymizedFromClause"
    /\ element = Select(Table)
    /\ Truthy(Get(kw, "allow_select"))
    /\ outcome = Return(Subquery(element))
    /\ warnings = 1

\* C5: for the membership-test role, an empty iterable resolves to the
\* grouped empty clause list annotated with in_ops = (op, negate_op), the
\* pair being (empty_in, empty_notin) for IN and (empty_notin, empty_in) for
\* NOT IN and complementary in every case; a non-empty iterable that
\* resolves gives the clause list grouped against the requested operator
\* with no in_ops annotation.
C5_InElement ==
    (Done /\ role = "InElement" /\ element.cls = "list"
          /\ {"expr", "operator"} \subseteq DOMAIN kw) =>
        IF Len(element.items) = 0
        THEN /\ outcome.kind = "return"
             /\ outcome.value.cls = "Grouping"
             /\ outcome.value.element = ClauseList(<<>>)
             /\ "annotations" \in DOMAIN outcome.value
             /\ LET in_ops == outcome.value.annotations.in_ops
                IN  /\ outcome.value.against = in_ops[1]
                    /\ in_ops \in {<<"empty_in_op", "empty_notin_op">>,
                                   <<"empty_notin_op", "empty_in_op">>}
                    /\ kw.operator = Operator("in_op") =>
                          in_ops = <<"empty_in_op", "empty_notin_op">>
                    /\ kw.operator = Operator("notin_op") =>
                          in_ops = <<"empty_notin_op", "empty_in_op">>
        ELSE outcome.kind = "return" =>
                /\ outcome.value.cls = "Grouping"
                /\ outcome.value.against = kw.operator.op
                /\ "annotations" \notin DOMAIN outcome.value
                /\ outcome.value.element.cls = "ClauseList"
                /\ Len(outcome.value.element.clauses) = Len(element.items)

C5_Witness ==
    /\ Done
    /\ role = "InElement"
    /\ element = List(<<>>)
    /\ {"expr", "operator"} \subseteq DOMAIN kw
    /\ kw.operator = Operator("notin_op")
    /\ outcome.kind = "return"
    /\ "annotations" \in DOMAIN outcome.value
    /\ outcome.value.annotations.in_ops = <<"empty_notin_op", "empty_in_op">>

KeyRoles == {"ColumnArgumentOrKey", "DMLColumn", "DDLConstraintColumn"}

\* C6 (as stated): for every string-as-key role and bare string s,
\* expect_as_key returns s and expect returns something other than s.
C6_Original ==
    (Done /\ role \in KeyRoles /\ element.cls = "str") =>
        IF Truthy(Get(kw, "as_key"))
        THEN outcome = Return(element)
        ELSE outcome.kind = "return" /\ outcome.value # element

\* C6 (amended): for every string-as-key role and bare string s, both
\* expect_as_key and expect return the plain string s.
C6_StringKey ==
    (Done /\ role \in KeyRoles /\ element.cls = "str") =>
        outcome = Return(element)

C6_Witness ==
    /\ Done
    /\ role = "DMLColumn"
    /\ element = PyStr(FOO)
    /\ ~Has(kw, "as_key")
    /\ outcome = Return(PyStr(FOO))

\* C7: for the columns-clause role "*" gives the wildcard literal column, a
\* number the literal column of its decimal text, None, True and False the
\* null, true and false nodes (True and False are not taken as numbers),
\* and any other bare string the argument error.
C7_ColumnsClauseLiterals ==
    (Done /\ role = "ColumnsClause") =>
        /\ element = PyStr(STAR) => outcome = Return(ColumnClause(<<"*">>, TRUE))
        /\ element = PyInt(5) => outcome = Return(ColumnClause(<<"5">>, TRUE))
        /\ element = PyInt(0) => outcome = Return(ColumnClause(<<"0">>, TRUE))
        /\ element = PyInt(12) => outcome = Return(ColumnClause(<<"1", "2">>, TRUE))
        /\ element = PyNone => outcome = Return(Null)
        /\ element = PyTrue => outcome = Return(True_)
        /\ element = PyFalse => outcome = Return(False_)
        /\ (element.cls = "str" /\ element # PyStr(STAR)) =>
              outcome.kind = "ArgumentError"

C7_Witness ==
    /\ Done
    /\ role = "ColumnsClause"
    /\ element = PyTrue
    /\ outcome = Return(True_)

\* C8: for the ordering role an accepted expression with the order-by-label
\* marker is returned as a label reference to it and one without the marker
\* unchanged, in a call without options and in a call that passes argname.
C8_OrderByPostCoercion ==
    (Done /\ role = "OrderBy" /\ Accepted /\ DOMAIN kw \subseteq {"argname"}) =>
        outcome = Return(IF element.cls = "Label"
                         THEN _label_reference(element) ELSE element)

\* C9: every argument error raised out of expect names the required role and
\* the original value, and the argument name when the caller gave one.
\* Stated for the errors that RoleImpl._raise_for_expected raises.
C9_ErrorNamesRoleValueArgname ==
    (/\ Done
     /\ outcome.kind = "ArgumentError"
     /\ outcome.msg.shape \in {"expected", "expected for argument"}) =>
        /\ outcome.msg.name = impl_lookup[role].name
        /\ outcome.msg.got = element
        /\ Truthy(Get(kw, "argname")) =>
              /\ "argname" \in DOMAIN outcome.msg
              /\ outcome.msg.argname = kw.argname

\* resolution of the original element ended without a tree node: the hook
\* chain ended at a value that is none, or no hook was invoked and
\* inspection gave no descriptor with a hook
NoNodeProduced ==
    IF hooks > 0 THEN ~IsNode(cur)
    ELSE ~(impl_lookup[role]._use_inspection /\ Inspect(element).hook)

\* C10 (as stated): on the resolution path, whenever unwrapping and
\* inspection produce no node, literal coercion is invoked on the original
\* value.
C10_Original ==
    (Done /\ ~IsNode(element) /\ NoNodeProduced) => lit_arg = element

\* C10 (amended): on the resolution path literal coercion is invoked, on the
\* original value, exactly when no hook was invoked and the role does not
\* use inspection or inspection gives no descriptor.  A hook chain that ends
\* at a value that is no node makes that value `resolved` without literal
\* coercion; a descriptor without a hook raises the argument error for the
\* original value without literal coercion.
C10_LiteralCoercion ==
    (Done /\ ~IsNode(element)) =>
        LET impl == impl_lookup[role]
            insp == Inspect(element)
        IN  /\ (hooks = 0 /\ ~(impl._use_inspection /\ insp.exists)) =>
                  lit_arg = element
            /\ hooks > 0 =>
                  /\ lit_arg = NoValue
                  /\ ~Called("_literal_coercion")
                  /\ ~Called("inspect")
            /\ (hooks = 0 /\ impl._use_inspection /\ insp.exists) =>
                  lit_arg = NoValue
            /\ (hooks = 0 /\ impl._use_inspection /\ insp.exists /\ ~insp.hook) =>
                  outcome = _raise_for_expected(impl, element, Get(kw, "argname"))

C10_Witness ==
    /\ Done
    /\ role = "ColumnsClause"
    /\ element = Inspectable("m2")
    /\ lit_arg = NoValue
    /\ outcome.kind = "ArgumentError"

\* the chains of wrappers of the model that end in a tree node: the first
\* wrapper, the number of wrappers, the node
FiniteChains ==
    {[start |-> Wrapper("w1"), n |-> 1, node |-> Table],
     [start |-> Wrapper("w2"), n |-> 2, node |-> Table],
     [start |-> Wrapper("w9"), n |-> 3, node |-> Table],
     [start |-> Wrapper("w6"), n |-> 1, node |-> Select(Table)],
     [start |-> Wrapper("w7"), n |-> 1, node |-> Label(ARG, PlainColumn)],
     [start |-> Wrapper("w8"), n |-> 1, node |-> HookedTable]}

\* the registered roles whose rule set resolves with the hook loop
HookRoles == ImplClasses \ {"TruncatedLabel"}

\* a call for a hook-consulting role on the first wrapper of chain c
OnChain(c) == pc # "idle" /\ role \in HookRoles /\ element = c.start

\* what C11 says of the states of such a call
C11_ChainState ==
    /\ \A c \in FiniteChains :
          OnChain(c) =>
             /\ hooks <= c.n
             /\ pc = "unwrap" => (hooks < c.n /\ ~IsNode(cur))
             /\ pc = "done" =>
                   /\ hooks = c.n
                   /\ cur = c.node
                   /\ lit_arg = NoValue
                   /\ ~Called("_literal_coercion")
                   /\ ~Called("inspect")
                   /\ outcome = TypeCheck(impl_lookup[role], element, c.node, kw,
                                          <<"_resolve_for_clause_element">>,
                                          NoValue).out
    /\ (pc # "idle" /\ role \in HookRoles /\ element = Wrapper("w4")) =>
          /\ pc = "unwrap"
          /\ outcome = NoOutcome
          /\ cur = IF hooks % 2 = 0 THEN Wrapper("w4") ELSE Wrapper("w5")
          /\ hooks < MaxHooks => ENABLED HookStep

\* C11: for a chain of n >= 1 wrappers that ends in a tree node N, resolution
\* for a hook-consulting role ends, after exactly n hook invocations and with
\* resolved = N, without invoking the hook of a tree node, literal coercion
\* or inspection; on a cycle of wrappers the loop never ends: after any
\* number of turns the call is still in the loop and a further turn follows.
C11_HookChain ==
    /\ []C11_ChainState
    /\ (pc = "unwrap" /\ \E c \in FiniteChains : OnChain(c)) ~> (pc = "done")

C11_Witness ==
    /\ pc = "done"
    /\ role = "ColumnsClause"
    /\ element = Wrapper("w9")
    /\ hooks = 3
    /\ cur = Table
    /\ outcome = Return(Table)
    /\ trace = <<"_resolve_for_clause_element">>

\* every entry of the registry is a rule set of the class named after its
\* role, bound to that role
BoundToOwnRole ==
    \A r \in DOMAIN impl_lookup :
        /\ impl_lookup[r].impl_class = r
        /\ impl_lookup[r]._role_class = r
        /\ impl_lookup[r].name = r

\* a call has ended in which expect looked the role up
LookedUp ==
    \/ pc = "done"
    \/ pc = "collected" /\ Len(element.items) > 0

\* C12 (as stated), its part on the registry after the loop: the registry
\* maps every declared role to one rule set, bound to that role, so that no
\* call ends with a failed lookup.
C12_OriginalState ==
    /\ DOMAIN impl_lookup = DeclaredRoles
    /\ BoundToOwnRole
    /\ LookedUp => outcome # PythonError("KeyError")

\* C12 (as stated): after the loop the registry maps every declared role to
\* exactly one rule set, bound to exactly that role; a declared role without
\* an implementation does not surface as a failed lookup inside expect; and
\* no call of expect, expect_as_key or the batch variant adds, removes or
\* replaces an entry.
C12_Original ==
    /\ []C12_OriginalState
    /\ [][impl_lookup' = impl_lookup]_vars

\* the declared roles for which coercions defines no ...Impl class
RolesWithoutImpl == {"SQL", "ColumnList", "Structural", "DML", "DDL"}

\* C12 (amended), its part on the registry after the loop
C12_RegistryState ==
    /\ DOMAIN impl_lookup = DeclaredRoles \ RolesWithoutImpl
    /\ BoundToOwnRole
    /\ LookedUp => (outcome = PythonError("KeyError") <=> role \in RolesWithoutImpl)

\* C12 (amended): after the loop the registry maps every declared role for
\* which coercions has a global named after it with "Impl" for "Role" to
\* exactly one rule set, bound to exactly that role; a declared role without
\* such a global is skipped without an error and every later call of expect,
\* expect_as_key or the batch variant (on at least one expression) for it
\* ends in a failed lookup; and no call of the three adds, removes or
\* replaces an entry.
C12_Registry ==
    /\ []C12_RegistryState
    /\ [][impl_lookup' = impl_lookup]_vars

C12_Witness ==
    /\ pc = "collected"
    /\ role = "Structural"
    /\ element = List(<<PlainColumn>>)
    /\ outcome = PythonError("KeyError")
    /\ "Structural" \notin DOMAIN impl_lookup
    /\ "StatementOption" \in DOMAIN impl_lookup
    /\ impl_lookup = Bootstrap

====
